---- MODULE Spec2Model ----
(***************************************************************************)
(* plot_decision_boundary(f, X, Y) of neural-networks/boundary_simple.py   *)
(* as a state machine: one action per statement (group) of the function,   *)
(* the position in the function body held in pc.                           *)
(*                                                                         *)
(* Numbers.  Coordinates are fixed-point integers; one unit is res/39, so  *)
(* res = 0.01 is 39 units.  Data coordinates lie on the lattice of         *)
(* multiples of CoordStep units, a lattice on which range * padding        *)
(* (15/100 of a difference of two data coordinates) is a whole number of   *)
(* units: on it every product, sum and difference of the function is       *)
(* computed exactly.  Scores of f are in tenths, so the threshold 0.5 is   *)
(* 5.  The one float operation whose rounding changes what the function    *)
(* does, the quotient inside np.arange, is modelled with its rounding      *)
(* (see ArangeLen).                                                        *)
(*                                                                         *)
(* numpy arrays are records [shape, data]: data is the C-order (row-major) *)
(* buffer, shape the tuple of dimensions.                                  *)
(***************************************************************************)
EXTENDS Integers, Sequences, FiniteSets, TLC

\* ------------------------------------------------------------------ bounds
MaxPoints == 2      \* longest dataset X (and longest label sequence Y)
MaxXCoord == 3      \* data x coordinates are CoordStep * (0..MaxXCoord)
MaxYCoord == 1      \* data y coordinates are CoordStep * (0..MaxYCoord)
ScoreLevels == 5    \* f takes the scores 0.3, 0.4, ... (ScoreLevels of them)

\* ------------------------------------------------------- program constants
PaddingNum == 15    \* padding = 0.15 = PaddingNum / PaddingDen
PaddingDen == 100
Res        == 39    \* res = 0.01, in units of res/39
Threshold  == 5     \* 0.5, in tenths
FigW       == 8     \* figsize=(8,6)
FigH       == 6
MarkerSize == 35    \* s=35

RECURSIVE GCD(_, _)
GCD(a, b) == IF b = 0 THEN a ELSE GCD(b, a % b)

\* The lattice step of the data coordinates (40 units): twice the least
\* difference whose 15/100 is whole, so that a range of k lattice steps is
\* padded to 52*k units: 2, 3, 4 samples for k = 1, 2, 3, and for k = 3 exactly
\* 4 steps of res.
CoordStep == 2 * (PaddingDen \div GCD(PaddingNum, PaddingDen))

\* ------------------------------------------------------------ numpy arrays
EmptyArr == [shape |-> <<0>>, data |-> <<>>]

\* X[:,c].min() and X[:,c].max() over a non-empty sequence of points.
ColMin(pts, c) == CHOOSE m \in {pts[i][c] : i \in DOMAIN pts} :
                     \A i \in DOMAIN pts : m <= pts[i][c]
ColMax(pts, c) == CHOOSE m \in {pts[i][c] : i \in DOMAIN pts} :
                     \A i \in DOMAIN pts : m >= pts[i][c]

\* A padding of 0.15 units whatever the range.
PadAbsolute(range) == PaddingNum
\* range * padding
Pad(range) == (range * PaddingNum) \div PaddingDen

\* ceil(a / b) for b > 0
CeilDiv(a, b) == IF a <= 0 THEN 0 ELSE (a + b - 1) \div b

\* np.arange(start, stop, step): start + k*step for k = 0 .. n-1 with
\* n = ceil((stop - start)/step).  The quotient is a float64 division: when
\* stop - start is a whole number of steps, the rounded quotient may come out
\* just above that whole number, and the ceiling then yields one more sample
\* (numpy documents that the last element may then reach or exceed stop).
\* ex is the set of <<start, stop>> arguments on which this happens.
ArangeLen(start, stop, step, ex) ==
    CeilDiv(stop - start, step) + (IF <<start, stop>> \in ex THEN 1 ELSE 0)
Arange(start, stop, step, ex) ==
    [k \in 1..ArangeLen(start, stop, step, ex) |-> start + (k - 1) * step]

\* np.meshgrid(xs, ys) with the default indexing='xy': both results have shape
\* (len(ys), len(xs)); xx[i][j] = xs[j] and yy[i][j] = ys[i].
MeshShape(xs, ys) == <<Len(ys), Len(xs)>>
MeshX(xs, ys) ==
    [shape |-> MeshShape(xs, ys),
     data  |-> [n \in 1..(Len(ys) * Len(xs)) |-> xs[((n - 1) % Len(xs)) + 1]]]
MeshY(xs, ys) ==
    [shape |-> MeshShape(xs, ys),
     data  |-> [n \in 1..(Len(ys) * Len(xs)) |-> ys[((n - 1) \div Len(xs)) + 1]]]

\* a.ravel(): the C-order buffer.
Ravel(a) == a.data
\* zip(a, b): pairs up to the shorter argument.
ZipLen(a, b) == IF Len(a) <= Len(b) THEN Len(a) ELSE Len(b)
\* a[i][j] of a 2-D array, i and j counted from 0.
At(a, i, j) == a.data[i * a.shape[2] + j + 1]
\* np.array(list).reshape(shape): same buffer, new shape.
Reshape(a, shape) == [shape |-> shape, data |-> a.data]

\* ---------------------------------------------------------- the inputs
\* The caller's classification function f, drawn from a family of deterministic
\* functions of the coordinate: f(p) = 0.3 + 0.1 * ((wx*p[0] + wy*p[1]) mod
\* ScoreLevels), and a partial f raises where that residue is ScoreLevels - 1.
Classifiers == [wx : {0, 1}, wy : {0, 1}, partial : BOOLEAN]
FHash(g, p)   == (g.wx * p[1] + g.wy * p[2]) % ScoreLevels
FRaises(g, p) == g.partial /\ FHash(g, p) = ScoreLevels - 1
FScore(g, p)  == Threshold - 2 + FHash(g, p)
\* The exception object f raises at p.
FError(g, p)  == [type |-> "FError", at |-> p]

Points == {<<CoordStep * i, CoordStep * j>> : i \in 0..MaxXCoord, j \in 0..MaxYCoord}
SeqsUpTo(S, n) == UNION {[1..m -> S] : m \in 0..n}
Datasets == SeqsUpTo(Points, MaxPoints)
\* The label sequences for a dataset of n points: of n labels, and of one more
\* (a length mismatch); the labels alternate 0, 1.
LabelSeqs(n) == {[i \in 1..m |-> (i - 1) % 2] : m \in {n, n + 1}}

\* The padded interval of axis c of a non-empty dataset (lines 12-23).
PaddedLo(pts, c) == ColMin(pts, c) - Pad(ColMax(pts, c) - ColMin(pts, c))
PaddedHi(pts, c) == ColMax(pts, c) + Pad(ColMax(pts, c) - ColMin(pts, c))
\* The arange arguments of a dataset whose width is a whole number of steps.
ExactAxes(pts) ==
    IF pts = <<>> THEN {}
    ELSE {ax \in {<<PaddedLo(pts, c), PaddedHi(pts, c)>> : c \in {1, 2}} :
            ax[2] > ax[1] /\ (ax[2] - ax[1]) % Res = 0}

\* ------------------------------------------------------------- the state
VARIABLES
    X, Y, f,        \* the arguments of the call
    excess,         \* arange arguments on which the float quotient rounds up
    pc,             \* the statement about to run; "done" or "failed" after it
    x_min, x_max, y_min, y_max, x_range, y_range,   \* locals, lines 12-23
    xx, yy,         \* the coordinate grids, line 26
    Z,              \* the label list (lines 33-35), then the label grid (37-38)
    it,             \* how many pairs the for loop has taken from zip
    calls,          \* the coordinates f was invoked with, in order
    draws,          \* the pyplot commands issued, in order
    err,            \* the exception the call ended with, or NoError
    ret,            \* the value the call returned
    hist            \* the outcome of the earlier call of the behaviour, if any

vars == <<X, Y, f, excess, pc, x_min, x_max, y_min, y_max, x_range, y_range,
          xx, yy, Z, it, calls, draws, err, ret, hist>>

inputs == <<X, Y, f, excess>>
box    == <<x_min, x_max, y_min, y_max>>
ranges == <<x_range, y_range>>
grids  == <<xx, yy>>
output == <<draws, ret>>

NoError   == [type |-> "none"]
\* X[:,0].min() of an empty X: numpy raises at line 12.
EmptyError == [type |-> "EmptyInput"]
\* An exception raised inside a pyplot call.
BackendError(cmd) == [type |-> "BackendError", at |-> cmd]
Pending   == "pending"
None      == "None"

\* A fresh frame: no local is bound yet.
FreshFrame ==
    /\ pc = "bounds"
    /\ x_min = 0 /\ x_max = 0 /\ y_min = 0 /\ y_max = 0
    /\ x_range = 0 /\ y_range = 0
    /\ xx = EmptyArr /\ yy = EmptyArr /\ Z = EmptyArr
    /\ it = 0
    /\ calls = <<>> /\ draws = <<>>
    /\ err = NoError /\ ret = Pending

Init ==
    /\ X \in Datasets
    /\ Y \in LabelSeqs(Len(X))
    /\ f \in Classifiers
    /\ excess \in SUBSET ExactAxes(X)
    /\ hist = <<>>
    /\ FreshFrame

\* Bounds computed with a default for an empty X (min(..., initial=0)).
BoundsDefault ==
    /\ pc = "bounds"
    /\ x_min' = (IF X = <<>> THEN 0 ELSE ColMin(X, 1))
    /\ x_max' = (IF X = <<>> THEN 0 ELSE ColMax(X, 1))
    /\ y_min' = (IF X = <<>> THEN 0 ELSE ColMin(X, 2))
    /\ y_max' = (IF X = <<>> THEN 0 ELSE ColMax(X, 2))
    /\ pc' = "ranges"
    /\ UNCHANGED <<inputs, ranges, grids, Z, it, calls, output, err, hist>>

\* Lines 12-13: the per-axis minimum and maximum; an empty X raises here.
Bounds ==
    /\ pc = "bounds"
    /\ IF X = <<>>
       THEN /\ pc' = "failed"
            /\ err' = EmptyError
            /\ UNCHANGED box
       ELSE /\ x_min' = ColMin(X, 1) /\ x_max' = ColMax(X, 1)
            /\ y_min' = ColMin(X, 2) /\ y_max' = ColMax(X, 2)
            /\ pc' = "ranges"
            /\ UNCHANGED err
    /\ UNCHANGED <<inputs, ranges, grids, Z, it, calls, output, hist>>

\* Lines 16-17.
Ranges ==
    /\ pc = "ranges"
    /\ x_range' = x_max - x_min
    /\ y_range' = y_max - y_min
    /\ pc' = "padding"
    /\ UNCHANGED <<inputs, box, grids, Z, it, calls, output, err, hist>>

\* Lines 20-23.
Padding ==
    /\ pc = "padding"
    /\ x_min' = x_min - Pad(x_range)
    /\ y_min' = y_min - Pad(y_range)
    /\ x_max' = x_max + Pad(x_range)
    /\ y_max' = y_max + Pad(y_range)
    /\ pc' = "meshgrid"
    /\ UNCHANGED <<inputs, ranges, grids, Z, it, calls, output, err, hist>>

\* Line 26.
Meshgrid ==
    /\ pc = "meshgrid"
    /\ xx' = MeshX(Arange(x_min, x_max, Res, excess), Arange(y_min, y_max, Res, excess))
    /\ yy' = MeshY(Arange(x_min, x_max, Res, excess), Arange(y_min, y_max, Res, excess))
    /\ pc' = "newlist"
    /\ UNCHANGED <<inputs, box, ranges, Z, it, calls, output, err, hist>>

\* A list that outlives the call (a mutable default argument, a global).
NewListShared ==
    IF hist = <<>> THEN EmptyArr
    ELSE [shape |-> <<Len(hist[1].Z.data)>>, data |-> hist[1].Z.data]
\* Line 33: Z = [].
NewList == EmptyArr
InitZ ==
    /\ pc = "newlist"
    /\ Z' = NewList
    /\ it' = 0
    /\ pc' = "loop"
    /\ UNCHANGED <<inputs, box, ranges, grids, calls, output, err, hist>>

\* The grids traversed column by column (ravel(order='F')).
ZipItemColMajor(n) ==
    LET i == (n - 1) % xx.shape[1]
        j == (n - 1) \div xx.shape[1]
    IN  <<At(xx, i, j), At(yy, i, j)>>
\* The pair the for loop of line 34 takes next from zip(xx.ravel(), yy.ravel()).
ZipItem(n) == <<Ravel(xx)[n], Ravel(yy)[n]>>
\* The coordinates passed to f in the other order.
FArgSwapped(pair) == <<pair[2], pair[1]>>
\* The argument line 35 passes to f for the pair (x_i, y_i).
FArg(pair) == <<pair[1], pair[2]>>
\* A threshold that is not strict.
LabelNotStrict(score) == IF score >= Threshold THEN 1 ELSE 0
\* 1 if f(...) > 0.5 else 0
Label(score) == IF score > Threshold THEN 1 ELSE 0
ListAppend(a, v) == [shape |-> <<Len(a.data) + 1>>, data |-> Append(a.data, v)]

\* The loop with the call of f wrapped in try/except: a failing point is
\* labelled 0 and the loop goes on.
LoopStepSwallow ==
    /\ pc = "loop"
    /\ it < ZipLen(Ravel(xx), Ravel(yy))
    /\ LET p == FArg(ZipItem(it + 1)) IN
         /\ calls' = Append(calls, p)
         /\ Z' = ListAppend(Z, IF FRaises(f, p) THEN 0 ELSE Label(FScore(f, p)))
         /\ it' = it + 1
    /\ UNCHANGED <<inputs, box, ranges, grids, pc, err, output, hist>>

\* Lines 34-35: one iteration of the loop; an exception of f leaves the function.
LoopStep ==
    /\ pc = "loop"
    /\ it < ZipLen(Ravel(xx), Ravel(yy))
    /\ LET p == FArg(ZipItem(it + 1)) IN
         /\ calls' = Append(calls, p)
         /\ IF FRaises(f, p)
            THEN /\ err' = FError(f, p)
                 /\ pc' = "failed"
                 /\ UNCHANGED <<Z, it>>
            ELSE /\ Z' = ListAppend(Z, Label(FScore(f, p)))
                 /\ it' = it + 1
                 /\ UNCHANGED <<pc, err>>
    /\ UNCHANGED <<inputs, box, ranges, grids, output, hist>>

\* Lines 37-38, once zip is exhausted.
ReshapeZ ==
    /\ pc = "loop"
    /\ it >= ZipLen(Ravel(xx), Ravel(yy))
    /\ Z' = Reshape(Z, xx.shape)
    /\ pc' = "figure"
    /\ UNCHANGED <<inputs, box, ranges, grids, it, calls, output, err, hist>>

\* A pyplot call: the command is issued, and the backend either carries it out
\* or raises, which leaves the function.
Draw(cmd, at, next) ==
    /\ pc = at
    /\ draws' = Append(draws, cmd)
    /\ \E ok \in BOOLEAN :
         IF ok THEN pc' = next /\ UNCHANGED err
               ELSE pc' = "failed" /\ err' = BackendError(cmd.cmd)

\* Line 41.
Figure ==
    /\ Draw([cmd |-> "figure", figsize |-> <<FigW, FigH>>], "figure", "contourf")
    /\ UNCHANGED <<inputs, box, ranges, grids, Z, it, calls, ret, hist>>

\* The function ending after the contour: the scatter overlay is missing.
ContourfLast ==
    /\ pc = "contourf"
    /\ draws' = Append(draws, [cmd |-> "contourf", x |-> xx, y |-> yy, z |-> Z,
                               cmap |-> "Spectral"])
    /\ pc' = "done"
    /\ ret' = None
    /\ UNCHANGED <<inputs, box, ranges, grids, Z, it, calls, err, hist>>

\* Line 42.
Contourf ==
    /\ Draw([cmd |-> "contourf", x |-> xx, y |-> yy, z |-> Z, cmap |-> "Spectral"],
            "contourf", "scatter")
    /\ UNCHANGED <<inputs, box, ranges, grids, Z, it, calls, ret, hist>>

\* Column c of X: X[:,c].
Column(pts, c) == [i \in DOMAIN pts |-> pts[i][c]]

\* Line 45, and the end of the function body: the call returns None.
Scatter ==
    /\ pc = "scatter"
    /\ draws' = Append(draws, [cmd |-> "scatter", x |-> Column(X, 1), y |-> Column(X, 2),
                               s |-> MarkerSize, c |-> Y, cmap |-> "Spectral"])
    /\ \E ok \in BOOLEAN :
         IF ok THEN pc' = "done" /\ ret' = None /\ UNCHANGED err
               ELSE pc' = "failed" /\ err' = BackendError("scatter") /\ UNCHANGED ret
    /\ UNCHANGED <<inputs, box, ranges, grids, Z, it, calls, hist>>

\* What a finished call leaves to compare: the invocations of f and the labels.
Outcome == [calls |-> calls, Z |-> Z]

\* The caller calls a second time with the same arguments: a new frame.
CallAgain ==
    /\ pc \in {"done", "failed"}
    /\ hist = <<>>
    /\ hist' = Append(hist, Outcome)
    /\ pc' = "bounds"
    /\ x_min' = 0 /\ x_max' = 0 /\ y_min' = 0 /\ y_max' = 0
    /\ x_range' = 0 /\ y_range' = 0
    /\ xx' = EmptyArr /\ yy' = EmptyArr /\ Z' = EmptyArr
    /\ it' = 0
    /\ calls' = <<>> /\ draws' = <<>>
    /\ err' = NoError /\ ret' = Pending
    /\ UNCHANGED inputs

\* One call.
Next ==
    \/ Bounds \/ Ranges \/ Padding \/ Meshgrid \/ InitZ \/ LoopStep \/ ReshapeZ
    \/ Figure \/ Contourf \/ Scatter

Spec == Init /\ [][Next]_vars

\* Two calls with the same arguments.
NextTwice == Next \/ CallAgain

SpecTwice == Init /\ [][NextTwice]_vars

\* ------------------------------------------------------------ the claims
\* Where the call stands.
GridBuilt  == Len(xx.shape) = 2
Labelled   == pc \in {"figure", "contourf", "scatter", "done"}
             \/ (pc = "failed" /\ err.type = "BackendError")
NumRows    == xx.shape[1]
NumCols    == xx.shape[2]
Rows       == 0..(NumRows - 1)
Cols       == 0..(NumCols - 1)

\* C1: every label is 0 or 1, and it is 1 exactly when the score of f at the
\* label's grid coordinate is strictly greater than 0.5; a score of exactly 0.5
\* gives the label 0.
C1_LabelsAreThresholdedScores ==
    \A n \in DOMAIN Z.data :
        LET score == FScore(f, <<Ravel(xx)[n], Ravel(yy)[n]>>) IN
          /\ Z.data[n] \in {0, 1}
          /\ (Z.data[n] = 1) <=> (score > Threshold)
          /\ (score = Threshold) => (Z.data[n] = 0)

\* A finished call whose grid holds a point scored exactly 0.5 (labelled 0) and
\* a point labelled 1.
C1_Witness ==
    /\ pc = "done"
    /\ \E n \in DOMAIN Z.data :
         FScore(f, <<Ravel(xx)[n], Ravel(yy)[n]>>) = Threshold /\ Z.data[n] = 0
    /\ \E n \in DOMAIN Z.data : Z.data[n] = 1

\* C2: f is invoked once per grid coordinate and for no other coordinate, in
\* row-major order: the invocation number i*NumCols + j (from 0) is the one at
\* row i, column j of the grid, whose x is the j-th x sample and whose y is the
\* i-th y sample; before the grid exists f is not invoked, and once the loop is
\* over every grid coordinate has been invoked.
C2_RowMajorOnce ==
    /\ ~GridBuilt => calls = <<>>
    /\ GridBuilt =>
         /\ Len(calls) <= NumRows * NumCols
         /\ \A i \in Rows, j \in Cols :
              (i * NumCols + j + 1) \in DOMAIN calls =>
                 /\ calls[i * NumCols + j + 1] = <<At(xx, i, j), At(yy, i, j)>>
                 /\ calls[i * NumCols + j + 1] = <<x_min + j * Res, y_min + i * Res>>
         /\ \A m, n \in DOMAIN calls : m /= n => calls[m] /= calls[n]
         /\ Labelled => Len(calls) = NumRows * NumCols

\* A finished call over a grid of at least two rows and three columns.
C2_Witness ==
    /\ pc = "done"
    /\ GridBuilt /\ NumRows >= 2 /\ NumCols >= 3
    /\ Len(calls) = NumRows * NumCols

\* C3: once the padding is applied, each axis of the box is
\* [min - 0.15*range, max + 0.15*range] for the minimum, maximum and range of
\* the points on that axis; it strictly contains [min, max] where the range is
\* positive, and where the range is zero the padded minimum and maximum are equal.
AxisPadded(pts, c, lo, hi) ==
    \E mn, mx \in {pts[i][c] : i \in DOMAIN pts} :
       /\ \A i \in DOMAIN pts : mn <= pts[i][c] /\ pts[i][c] <= mx
       /\ PaddingDen * (mn - lo) = PaddingNum * (mx - mn)
       /\ PaddingDen * (hi - mx) = PaddingNum * (mx - mn)
       /\ (mx > mn) => (lo < mn /\ mx < hi)
       /\ (mx = mn) => (lo = hi /\ lo = mn)
C4_FErrorPropagates ==
    \A n \in DOMAIN calls :
        FRaises(f, calls[n]) =>
           /\ n = Len(calls)
           /\ pc = "failed"
           /\ err = [type |-> "FError", at |-> calls[n]]
           /\ draws = <<>>
           /\ ret = Pending
           /\ ~Labelled

\* f raised after it had returned for at least two coordinates and before the
\* last grid coordinate.
C4_Witness ==
    /\ pc = "failed" /\ err.type = "FError"
    /\ Len(calls) >= 3
    /\ Len(calls) < NumRows * NumCols

\* C5: with label and point sequences of different lengths (and a non-empty X,
\* so that the bounds computation does not fail first) the call fails with a
\* length-mismatch error before any grid is built, before f is invoked and
\* before any draw command is issued.
C5_EagerLengthCheck ==
    (Len(Y) /= Len(X) /\ X /= <<>>) =>
        /\ ~GridBuilt
        /\ calls = <<>>
        /\ draws = <<>>
        /\ pc /= "done"
        /\ (pc = "failed" => err.type = "LengthMismatch")

\* C6: with an empty X the call fails at the bounds computation with the
\* empty-input error: no grid is built, f is not invoked, no draw command is
\* issued, nothing is returned.
C6_EmptyInputFails ==
    (X = <<>>) =>
        /\ pc \in {"bounds", "failed"}
        /\ (pc = "failed" => err = EmptyError)
        /\ ~GridBuilt
        /\ calls = <<>>
        /\ draws = <<>>
        /\ ret = Pending

\* The call with an empty X has failed.
C6_Witness == X = <<>> /\ pc = "failed" /\ err.type = "EmptyInput"

\* C7: the label grid handed to the contour draw has the shape of the
\* coordinate grids, (number of y samples, number of x samples), and its label
\* at row i, column j is the thresholded score of f at the coordinate the
\* coordinate grids hold at row i, column j.
ContourDraws == {n \in DOMAIN draws : draws[n].cmd = "contourf"}
C7_LabelGridMatchesGrid ==
    \A n \in ContourDraws :
        LET d == draws[n] IN
          /\ d.z.shape = d.x.shape /\ d.z.shape = d.y.shape
          /\ d.z.shape = <<ArangeLen(y_min, y_max, Res, excess),
                           ArangeLen(x_min, x_max, Res, excess)>>
          /\ Len(d.z.data) = d.z.shape[1] * d.z.shape[2]
          /\ \A i \in 0..(d.z.shape[1] - 1), j \in 0..(d.z.shape[2] - 1) :
               At(d.z, i, j) =
                  (IF FScore(f, <<At(d.x, i, j), At(d.y, i, j)>>) > Threshold
                   THEN 1 ELSE 0)

\* A contour draw of a grid with more columns than rows that holds both labels.
C7_Witness ==
    \E n \in ContourDraws :
        /\ draws[n].z.shape[1] >= 2
        /\ draws[n].z.shape[2] > draws[n].z.shape[1]
        /\ \E a, b \in DOMAIN draws[n].z.data :
              draws[n].z.data[a] = 0 /\ draws[n].z.data[b] = 1

\* C8: a second call with the same arguments invokes f with the same
\* coordinates in the same order and produces the same label grid as the first.
IsPrefix(a, b) == Len(a) <= Len(b) /\ \A n \in DOMAIN a : a[n] = b[n]
C8_SecondCallSame ==
    (hist /= <<>>) =>
        /\ IsPrefix(calls, hist[1].calls)
        /\ (Labelled \/ pc = "failed") =>
              /\ calls = hist[1].calls
              /\ Z = hist[1].Z

\* The second call has finished, as the first did, over a grid of several points
\* holding both labels.
C8_Witness ==
    /\ hist /= <<>> /\ pc = "done"
    /\ Len(calls) >= 4
    /\ \E a, b \in DOMAIN Z.data : Z.data[a] = 0 /\ Z.data[b] = 1

\* C9: a call that returns has issued exactly figure(figsize=(8,6)), then the
\* contour of the label grid over the coordinate grids, then the scatter of the
\* columns of X coloured by Y, and has returned None; and no draw command is
\* issued before f has been invoked for every grid coordinate.
C9_DrawOrder ==
    /\ (pc = "done") =>
          /\ Len(draws) = 3
          /\ draws[1] = [cmd |-> "figure", figsize |-> <<8, 6>>]
          /\ draws[2].cmd = "contourf"
          /\ draws[2].x = xx /\ draws[2].y = yy /\ draws[2].z = Z
          /\ draws[3].cmd = "scatter"
          /\ draws[3].x = [i \in DOMAIN X |-> X[i][1]]
          /\ draws[3].y = [i \in DOMAIN X |-> X[i][2]]
          /\ draws[3].c = Y
          /\ ret = None
    /\ (pc /= "done") => (ret = Pending)
    /\ (draws /= <<>>) =>
          /\ GridBuilt /\ Len(calls) = NumRows * NumCols
          /\ draws[1].cmd = "figure"
          /\ \A n \in DOMAIN draws :
               draws[n].cmd = (IF n = 1 THEN "figure" ELSE IF n = 2 THEN "contourf"
                               ELSE "scatter")
          /\ Len(draws) <= 3

\* A call over a non-empty grid has returned.
C9_Witness == pc = "done" /\ Len(calls) >= 2 /\ Len(draws) = 3 /\ Len(X) = 2

\* C10: each axis is sampled at padded_min + k*0.01, k = 0, 1, ..., exactly
\* for the values strictly below padded_max (so the padded maximum is never
\* sampled); with a zero range on an axis the grid is empty, f is never invoked,
\* and the contour is still drawn, of an empty label grid.
HalfOpenSamples(lo, hi) == {v \in lo..(hi - 1) : (v - lo) % Res = 0}
C10_HalfOpenGrid ==
    GridBuilt =>
        /\ {xx.data[n] : n \in DOMAIN xx.data} =
              (IF NumRows = 0 THEN {} ELSE HalfOpenSamples(x_min, x_max))
        /\ {yy.data[n] : n \in DOMAIN yy.data} =
              (IF NumCols = 0 THEN {} ELSE HalfOpenSamples(y_min, y_max))
        /\ \A n \in DOMAIN xx.data : xx.data[n] < x_max /\ yy.data[n] < y_max
        /\ (x_range = 0 \/ y_range = 0) =>
              /\ xx.data = <<>> /\ yy.data = <<>>
              /\ calls = <<>>
              /\ \A n \in ContourDraws : draws[n].z.data = <<>>
              /\ (pc \in {"scatter", "done"}) => ContourDraws /= {}

====
